---- MODULE Spec2Model ----
(***************************************************************************)
(* Connection manager, retry loop, health check and shutdown handlers of   *)
(* the Simple SQLite Database System (src/data.js).                        *)
(*                                                                         *)
(* Time is the value of Date.now() in milliseconds.  A JavaScript macro    *)
(* task (a timer callback, a sqlite3 completion callback, a signal         *)
(* handler, a synchronous call) together with the promise continuations it *)
(* triggers is one action.                                                 *)
(***************************************************************************)
EXTENDS Integers, Sequences, FiniteSets, TLC

(* ------------------------------ bounds -------------------------------- *)
\* number of executeCall() attempts made in one behaviour, over all calls
MaxAttempts == 3
\* calls, evictions and signals from outside arrive before this time, and
\* Date.now() never exceeds it unless the health check has work to do
MaxTime == 30200
\* number of health-check ticks followed when the health check has work to do
MaxSweeps == 7
\* largest `this.changes` a statement reports
MaxChanges == 1
\* the configured Config.connection.max_retries that is neither negative nor
\* replaced by the default
MaxRetriesCfg == 1

(* ------------------------- program constants -------------------------- *)
database_folder == "K:/Data"
database_version == "0.0"
DefaultPoolTimeout == 30000
DefaultMaxRetries == 3
DefaultRetryDelay == 100
HealthCheckInterval == 60000
ExitDelay == 100
ExitStatus == 0
StaleAge == 5 * 60 * 1000

FileOrder == <<"a.db", "b.db">>
Files == {FileOrder[i] : i \in DOMAIN FileOrder}
Ops == {1, 2}
\* the slots used when the callers await each call before the next
Callers == {1}
Methods == {"get", "all", "run"}

\* An error message is modelled by the set of the substrings of interest
\* it contains; String.prototype.includes is membership.
Markers == {"SQLITE_MISUSE", "closed", "not open"}
ErrMsgs == {{}, {"SQLITE_MISUSE"}, {"closed"}, {"not open"}}
includes(msg, s) == s \in msg

\* Configurations the module is loaded with.  With the shipped pool timeout
\* max_retries is negative, 0 (replaced by the default) or MaxRetriesCfg; one
\* configuration has a pool timeout beyond the stale age, which gives the
\* health check work to do.
LongPoolTimeout == 400000
Configs ==
    [max_retries : {-1, 0, MaxRetriesCfg},
     db_pool_timeout : {DefaultPoolTimeout}]
    \cup {[max_retries |-> 1, db_pool_timeout |-> LongPoolTimeout]}

(* --------------------------- JavaScript values ------------------------ *)
Undefined == [t |-> "undefined", n |-> 0]
Num(n) == [t |-> "number", n |-> n]
\* result of db.get: the first matching row, or undefined
Row(n) == IF n = 0 THEN Undefined ELSE [t |-> "row", n |-> 1]
\* result of db.all: the list of matching rows
Rows(n) == [t |-> "rows", n |-> n]

JsTruthy(v) == IF v.t = "number" THEN v.n # 0 ELSE v.t # "undefined"
\* a || b
JsOr(a, b) == IF JsTruthy(a) THEN a ELSE b
\* v.changes : a number primitive has no such property
GetChanges(v) == Undefined

(* ------------------------------ PATH LAYER ---------------------------- *)
\* path.join(Config.database_folder, Config.database_version, ...base)
Path(base) == <<database_folder, database_version>> \o base

(* ---------------------------- state ----------------------------------- *)
VARIABLES
    now,          \* Date.now()
    cfg,          \* Config.connection
    connections,  \* ConnectionManager.connections: key -> conn object
    handles,      \* every Database ever created, with the timer of its conn
    ops,          \* the Data.Execute calls
    made,         \* number of executeCall() attempts made
    nextSweep,    \* time of the next health-check tick
    exitTimers,   \* times of the scheduled process.exit calls
    exited,       \* the process has exited
    acq,          \* history: per key, handle and time of the last getConnection
    evictedSince, \* history: per key, an eviction was requested since then
    ev            \* history: the last event

vars == <<now, cfg, connections, handles, ops, made, nextSweep, exitTimers,
          exited, acq, evictedSince, ev>>

Keys == {Path(<<f>>) : f \in Files}
Handles == 1 .. Len(handles)

MapSet(m, k, v) == [x \in DOMAIN m \cup {k} |-> IF x = k THEN v ELSE m[x]]
MapDelete(m, k) == [x \in DOMAIN m \ {k} |-> m[x]]
Min(S) == CHOOSE x \in S : \A y \in S : x <= y

(* -------------------------- CONNECTION LAYER -------------------------- *)
\* A conn object {db, lastUsed, timeout, open} is the record
\* [db, lastUsed, open] stored in the map; db is the index of its Database
\* in `handles`.  handles[h] = [key, state, timer]: the file the Database was
\* created for and the `arq` of its closures, the state of the sqlite3
\* handle ("open", "openfailed", "closing", "closed", "closefailed"), and
\* the time at which the pending timer conn.timeout of its conn fires (-1:
\* no pending timer).  A conn that is no longer in the map is referenced only by the
\* close callbacks of its Database.
\* The registry is passed around as R = [connections, handles].
Reg == [connections |-> connections, handles |-> handles]

\* ConnectionManager.db_pool_timeout = Config.connection.db_pool_timeout
\*                                     || 30000
PoolTimeout(c) == IF c.db_pool_timeout # 0 THEN c.db_pool_timeout
                  ELSE DefaultPoolTimeout

\* db.close(cb): the close is queued on the Database
RequestClose(state) == IF state = "open" THEN "closing" ELSE state

\* mutant: a hit leaves the pending timer of the conn as it is
getConnectionKeepsTimer(R, arq, t, timeout) ==
    IF arq \in DOMAIN R.connections /\ R.connections[arq].open
    THEN [connections |-> [R.connections EXCEPT ![arq].lastUsed = t],
          handles |-> R.handles,
          db |-> R.connections[arq].db]
    ELSE LET h == Len(R.handles) + 1 IN
         [connections |->
            MapSet(R.connections, arq,
                   [db |-> h, lastUsed |-> t, open |-> TRUE]),
          handles |-> Append(R.handles,
                        [key |-> arq, state |-> "open",
                         timer |-> t + timeout]),
          db |-> h]

\* mutant: the lookup is skipped, every call takes the creation branch
getConnectionAlwaysCreates(R, arq, t, timeout) ==
    LET h == Len(R.handles) + 1 IN
    [connections |->
       MapSet(R.connections, arq, [db |-> h, lastUsed |-> t, open |-> TRUE]),
     handles |-> Append(R.handles,
                   [key |-> arq, state |-> "open", timer |-> t + timeout]),
     db |-> h]

\* ConnectionManager.getConnection(arq) at time t
getConnection(R, arq, t, timeout) ==
    IF arq \in DOMAIN R.connections /\ R.connections[arq].open
    THEN LET h == R.connections[arq].db IN
         [connections |-> [R.connections EXCEPT ![arq].lastUsed = t],
          handles |-> [R.handles EXCEPT ![h].timer = t + timeout],
          db |-> h]
    ELSE LET h == Len(R.handles) + 1 IN
         [connections |->
            MapSet(R.connections, arq,
                   [db |-> h, lastUsed |-> t, open |-> TRUE]),
          handles |-> Append(R.handles,
                        [key |-> arq, state |-> "open",
                         timer |-> t + timeout]),
          db |-> h]

\* mutant: a key without a record counts as open
isConnectionOpenAbsentTrue(R, arq) ==
    IF arq \in DOMAIN R.connections
    THEN (IF R.connections[arq].open THEN "true" ELSE "false")
    ELSE "true"

\* ConnectionManager.isConnectionOpen(arq): conn && conn.open === true
isConnectionOpen(R, arq) ==
    IF arq \in DOMAIN R.connections
    THEN (IF R.connections[arq].open THEN "true" ELSE "false")
    ELSE "undefined"

\* clearTimeout(conn.timeout); if (conn.open) conn.db.close(...)
CloseConn(hs, conn) ==
    [hs EXCEPT ![conn.db].timer = -1,
               ![conn.db].state = IF conn.open THEN RequestClose(@) ELSE @]

\* mutant: the entry is deleted without closing its Database
closeConnectionDeleteOnly(R, arq) ==
    IF arq \in DOMAIN R.connections
    THEN [connections |-> MapDelete(R.connections, arq),
          handles |-> [R.handles EXCEPT
                          ![R.connections[arq].db].timer = -1]]
    ELSE [connections |-> R.connections, handles |-> R.handles]

\* mutant: the entry stays in the map until the close completes
closeConnectionKeepsEntry(R, arq) ==
    IF arq \in DOMAIN R.connections
    THEN [connections |-> R.connections,
          handles |-> CloseConn(R.handles, R.connections[arq])]
    ELSE [connections |-> R.connections, handles |-> R.handles]

\* mutant: closing one connection drops every record of the map
closeConnectionDropsAll(R, arq) ==
    IF arq \in DOMAIN R.connections
    THEN [connections |-> <<>>,
          handles |-> CloseConn(R.handles, R.connections[arq])]
    ELSE [connections |-> R.connections, handles |-> R.handles]

\* ConnectionManager.closeConnection(arq)
closeConnection(R, arq) ==
    IF arq \in DOMAIN R.connections
    THEN [connections |-> MapDelete(R.connections, arq),
          handles |-> CloseConn(R.handles, R.connections[arq])]
    ELSE [connections |-> R.connections, handles |-> R.handles]

RECURSIVE CloseEach(_, _, _)
\* the loop of ConnectionManager.shutdown over the entries of the map
CloseEach(hs, m, todo) ==
    IF todo = {} THEN hs
    ELSE LET k == CHOOSE x \in todo : TRUE IN
         CloseEach(CloseConn(hs, m[k]), m, todo \ {k})

\* mutant: the map is cleared without closing the Databases
shutdownClearOnly(R) ==
    [connections |-> <<>>, handles |-> R.handles]

\* ConnectionManager.shutdown()
shutdown(R) ==
    [connections |-> <<>>,
     handles |-> CloseEach(R.handles, R.connections, DOMAIN R.connections)]

\* new Date(ms).toISOString()
toISOString(ms) == <<"iso", ms>>

\* ConnectionManager.getStatus() at time t
getStatus(R, t) ==
    [k \in DOMAIN R.connections |->
        [open |-> R.connections[k].open,
         lastUsed |-> toISOString(R.connections[k].lastUsed),
         age |-> t - R.connections[k].lastUsed]]

\* conn.open = false, by a closure that holds the conn of Database h
SetClosedFlag(m, h) ==
    [k \in DOMAIN m |-> IF m[k].db = h THEN [m[k] EXCEPT !.open = FALSE]
                        ELSE m[k]]

\* the callback of db.close for Database h
closeCallback(R, h, ok) ==
    [connections |-> SetClosedFlag(R.connections, h),
     handles |-> [R.handles EXCEPT ![h].state = IF ok THEN "closed"
                                                ELSE "closefailed"]]

\* the handler of the "close" event of Database h, registered by
\* getConnection with the arq it was called with
closeHandler(R, h) ==
    [connections |-> MapDelete(SetClosedFlag(R.connections, h),
                               R.handles[h].key),
     handles |-> R.handles]

\* handles on which this step requested a close
CloseRequested(old, new) ==
    {h \in DOMAIN old : old[h].state = "open" /\ new[h].state = "closing"}

(* ------------------------------ DATA LAYER ---------------------------- *)
NoError == [kind |-> "none", msg |-> {}]
\* a Data.Execute call: pc is "idle" (no call), "running" (statement handed
\* to sqlite3) or "waiting" (retry delay)
IdleOp == [pc |-> "idle", arq |-> "a.db", method |-> "get", retries |-> 0,
           attempts |-> 0, nTransient |-> 0, db |-> 0, wake |-> -1]
\* what a finished call hands to its caller
NoReturn == [outcome |-> "none", value |-> Undefined, error |-> NoError,
             method |-> "get", rows |-> 0, attempts |-> 0, nTransient |-> 0]
Return(o, outcome, value, error, rows) ==
    [outcome |-> outcome, value |-> value, error |-> error,
     method |-> o.method, rows |-> rows, attempts |-> o.attempts,
     nTransient |-> o.nTransient]

\* let retries = Config.connection.max_retries || 3
InitialRetries(c) == IF c.max_retries # 0 THEN c.max_retries
                     ELSE DefaultMaxRetries

\* Config.connection.retry_delay || 100
RetryDelay == DefaultRetryDelay

\* mutant: the statement callback tests all three markers
CallbackIsNotOpenAny(msg) ==
    \/ includes(msg, "SQLITE_MISUSE")
    \/ includes(msg, "closed")
    \/ includes(msg, "not open")

\* the test of the statement callback:
\* err.message.includes("SQLITE_MISUSE" || err.message.includes("closed")
\*                                      || err.message.includes("not open"))
\* where a non-empty string on the left of || is the value of the expression
CallbackIsNotOpen(msg) ==
    includes(msg, IF "SQLITE_MISUSE" # "" THEN "SQLITE_MISUSE"
                  ELSE IF includes(msg, "closed") THEN "true"
                  ELSE IF includes(msg, "not open") THEN "true" ELSE "false")

\* mutant: the retry loop tests the first marker only
IsConnectionErrorFirstMarker(msg) == includes(msg, "SQLITE_MISUSE")

\* mutant: the retry loop treats every failure as a connection error
IsConnectionErrorAny(msg) == TRUE

\* the test of the retry loop
IsConnectionError(msg) ==
    \/ includes(msg, "SQLITE_MISUSE")
    \/ includes(msg, "closed")
    \/ includes(msg, "not open")

\* what the sqlite3 method hands to `callback` as result when n rows match
\* (get, all) or are changed (run: callback(err, this.changes))
EngineResult(method, n) ==
    IF method = "get" THEN Row(n)
    ELSE IF method = "all" THEN Rows(n)
    ELSE Num(n)

\* the value the statement callback resolves with
CallbackResolve(method, result) ==
    IF method = "run"
    THEN (IF JsTruthy(result) THEN JsOr(GetChanges(result), Num(0))
          ELSE Num(0))
    ELSE result

\* mutant: the budget counts as spent one attempt early
BudgetExhaustedEarly(retries) == retries <= 1

\* if (retries === 0) throw new Error("Database connection failed ...")
BudgetExhausted(retries) == retries = 0

\* The functions below thread P = [op, R, evicted, db, ret, made]: the call,
\* the registry, the keys closeConnection was called with, the handle
\* getConnection returned, what the call returned if it finished, and the
\* number of executeCall() invocations.
Thread(o, R) == [op |-> o, R |-> R, evicted |-> {}, db |-> 0,
                 ret |-> NoReturn, made |-> 0]

\* mutant: the catch block leaves the budget as it is
CatchKeepsRetries(P, msg, t) ==
    LET o1 == [P.op EXCEPT !.db = 0] IN
    IF IsConnectionError(msg)
    THEN LET R1 == closeConnection(P.R, Path(<<o1.arq>>))
             o2 == [o1 EXCEPT !.nTransient = @ + 1]
             P1 == [P EXCEPT !.R = R1,
                             !.evicted = @ \cup {Path(<<o1.arq>>)}] IN
         IF BudgetExhausted(o2.retries)
         THEN [P1 EXCEPT !.op = IdleOp,
                         !.ret = Return(o2, "rejected", Undefined,
                                   [kind |-> "ConnectionExhausted",
                                    msg |-> msg], 0)]
         ELSE [P1 EXCEPT !.op = [o2 EXCEPT !.pc = "waiting",
                                           !.wake = t + RetryDelay]]
    ELSE [P EXCEPT !.op = IdleOp,
                   !.ret = Return(o1, "rejected", Undefined,
                                  [kind |-> "rethrown", msg |-> msg], 0)]

\* mutant: the delay doubles with every failed attempt
CatchExponentialBackoff(P, msg, t) ==
    LET o1 == [P.op EXCEPT !.retries = @ - 1, !.db = 0] IN
    IF IsConnectionError(msg)
    THEN LET R1 == closeConnection(P.R, Path(<<o1.arq>>))
             o2 == [o1 EXCEPT !.nTransient = @ + 1]
             P1 == [P EXCEPT !.R = R1,
                             !.evicted = @ \cup {Path(<<o1.arq>>)}] IN
         IF BudgetExhausted(o2.retries)
         THEN [P1 EXCEPT !.op = IdleOp,
                         !.ret = Return(o2, "rejected", Undefined,
                                   [kind |-> "ConnectionExhausted",
                                    msg |-> msg], 0)]
         ELSE [P1 EXCEPT !.op = [o2 EXCEPT !.pc = "waiting",
                                           !.wake = t + RetryDelay
                                                      * 2 ^ (o2.nTransient - 1)]]
    ELSE [P EXCEPT !.op = IdleOp,
                   !.ret = Return(o1, "rejected", Undefined,
                                  [kind |-> "rethrown", msg |-> msg], 0)]

\* the catch block of the retry loop, entered with err.message = msg
Catch(P, msg, t) ==
    LET o1 == [P.op EXCEPT !.retries = @ - 1, !.db = 0] IN
    IF IsConnectionError(msg)
    THEN LET R1 == closeConnection(P.R, Path(<<o1.arq>>))
             o2 == [o1 EXCEPT !.nTransient = @ + 1]
             P1 == [P EXCEPT !.R = R1,
                             !.evicted = @ \cup {Path(<<o1.arq>>)}] IN
         IF BudgetExhausted(o2.retries)
         THEN [P1 EXCEPT !.op = IdleOp,
                         !.ret = Return(o2, "rejected", Undefined,
                                   [kind |-> "ConnectionExhausted",
                                    msg |-> msg], 0)]
         ELSE [P1 EXCEPT !.op = [o2 EXCEPT !.pc = "waiting",
                                           !.wake = t + RetryDelay]]
    ELSE [P EXCEPT !.op = IdleOp,
                   !.ret = Return(o1, "rejected", Undefined,
                                  [kind |-> "rethrown", msg |-> msg], 0)]

\* executeCall() up to the point where the statement is handed to sqlite3;
\* dir is the outcome of existsSync/mkdirSync
executeCall(P, dir, t, c) ==
    LET o1 == [P.op EXCEPT !.attempts = @ + 1]
        P0 == [P EXCEPT !.op = o1, !.made = @ + 1] IN
    IF ~dir.ok THEN Catch(P0, dir.msg, t)
    ELSE LET g == getConnection(P.R, Path(<<o1.arq>>), t, PoolTimeout(c))
             R1 == [connections |-> g.connections, handles |-> g.handles] IN
         IF g.db = 0
         THEN Catch([P0 EXCEPT !.R = R1], {}, t)
         ELSE [P0 EXCEPT !.op = [o1 EXCEPT !.pc = "running", !.db = g.db],
                         !.R = R1, !.db = g.db]

\* while (retries > 0) { try { return await executeCall(); } ... }
\* falling out of the loop returns undefined
RetryLoop(P, dir, t, c) ==
    IF P.op.retries > 0 THEN executeCall(P, dir, t, c)
    ELSE [P EXCEPT !.op = IdleOp,
                   !.ret = Return(P.op, "resolved", Undefined, NoError, 0)]

\* the statement callback followed by the continuation of the retry loop
callback(P, res, t) ==
    IF ~res.ok
    THEN IF CallbackIsNotOpen(res.msg)
         THEN Catch([P EXCEPT !.R = closeConnection(P.R, <<P.op.arq>>),
                              !.evicted = @ \cup {<<P.op.arq>>}],
                    res.msg, t)
         ELSE Catch(P, res.msg, t)
    ELSE [P EXCEPT !.op = IdleOp,
                   !.ret = Return(P.op, "resolved",
                              CallbackResolve(P.op.method,
                                  EngineResult(P.op.method, res.n)),
                              NoError, res.n)]

(* ------------------------------ actions ------------------------------- *)
Ok == [ok |-> TRUE, msg |-> {}, n |-> 0]
Failures == {[ok |-> FALSE, msg |-> m, n |-> 0] : m \in ErrMsgs}
DirErrMsgs == {{}, {"closed"}}
DirOutcomes == {Ok} \cup {[ok |-> FALSE, msg |-> m, n |-> 0] : m \in DirErrMsgs}
StmtOutcomes == {[ok |-> TRUE, msg |-> {}, n |-> n] : n \in 0 .. MaxChanges}
                \cup Failures

\* the last event: its kind, the call (or the Database) it belongs to, the
\* key and the handle of the getConnection in it, the keys closeConnection
\* was called with, the handles it requested a close on, the outcome
\* (existsSync/mkdirSync or statement) it handled, what the call returned,
\* for a signal handler the steps it took, in order, for process.exit
\* the exit status, for a getStatus() the object it returned, and the
\* Databases the step created
Event(kind, o, key, P, res) ==
    [kind |-> kind, op |-> o, key |-> key, db |-> P.db,
     evicted |-> P.evicted, closed |-> {}, failed |-> ~res.ok,
     msg |-> res.msg, ret |-> P.ret, steps |-> <<>>, status |-> -1,
     snapshot |-> <<>>, created |-> {}]

\* install the new registry and the history of the step; a call from
\* outside that changes nothing (noop) is not recorded as the last event
Commit(R, e, noop) ==
    /\ connections' = R.connections
    /\ handles' = R.handles
    /\ ev' = IF noop THEN ev
             ELSE [e EXCEPT !.closed = CloseRequested(handles, R.handles),
                            !.created = DOMAIN R.handles \ DOMAIN handles]
    /\ acq' = IF e.db # 0 THEN [acq EXCEPT ![e.key] = [h |-> e.db, t |-> now]]
              ELSE acq
    /\ evictedSince' =
         [k \in Keys |->
            IF noop THEN evictedSince[k]
            ELSE IF e.db # 0 /\ k = e.key THEN FALSE
            ELSE IF k \in e.evicted /\ acq[k].h # 0 THEN TRUE
            ELSE evictedSince[k]]

InitRest ==
    /\ now = 0
    /\ connections = <<>>
    /\ handles = <<>>
    /\ ops = [o \in Ops |-> IdleOp]
    /\ made = 0
    /\ nextSweep = HealthCheckInterval
    /\ exitTimers = {}
    /\ exited = FALSE
    /\ acq = [k \in Keys |-> [h |-> 0, t |-> 0]]
    /\ evictedSince = [k \in Keys |-> FALSE]
    /\ ev = Event("init", 0, <<>>, Thread(IdleOp, Reg), Ok)

Init ==
    /\ cfg \in Configs
    /\ PoolTimeout(cfg) <= StaleAge
    /\ InitRest

\* File names are interchangeable: a name is first used once the names
\* before it in FileOrder have been opened.
NextFiles ==
    {FileOrder[i] : i \in {j \in DOMAIN FileOrder :
                              \A k \in 1 .. (j - 1) :
                                  acq[Path(<<FileOrder[k]>>)].h # 0}}

\* Data.Check / Data.Read / Data.Write -> Data.Execute(arq, sql, values, m);
\* a new call takes the lowest free slot
Call(o, f, m, dir) ==
    /\ ~exited
    /\ ops[o].pc = "idle"
    /\ \A o2 \in Ops : o2 < o => ops[o2].pc # "idle"
    /\ f \in NextFiles
    /\ LET start == [IdleOp EXCEPT !.arq = f, !.method = m,
                                   !.retries = InitialRetries(cfg)]
           P == RetryLoop(Thread(start, Reg), dir, now, cfg) IN
       /\ made + P.made <= MaxAttempts
       /\ made' = made + P.made
       /\ ops' = [ops EXCEPT ![o] = P.op]
       /\ Commit(P.R, Event("execute", o, Path(<<f>>), P,
                            IF P.made = 0 THEN Ok ELSE dir), FALSE)
    /\ UNCHANGED <<now, cfg, nextSweep, exitTimers, exited>>

\* a call that arrives during the first MaxTime milliseconds
Execute(o, f, m, dir) ==
    /\ now < MaxTime
    /\ Call(o, f, m, dir)

\* sqlite3 calls back with the outcome of the statement
StatementDone(o, res) ==
    /\ ~exited
    /\ ops[o].pc = "running"
    /\ LET P == callback(Thread(ops[o], Reg), res, now) IN
       /\ ops' = [ops EXCEPT ![o] = P.op]
       /\ Commit(P.R, Event(IF res.ok THEN "resolve" ELSE "reject", o,
                            Path(<<ops[o].arq>>), P, res), FALSE)
    /\ UNCHANGED <<now, cfg, made, nextSweep, exitTimers, exited>>

\* the retry delay has elapsed: `continue`
RetryWake(o, dir) ==
    /\ ~exited
    /\ ops[o].pc = "waiting"
    /\ ops[o].wake <= now
    /\ made < MaxAttempts
    /\ LET P == RetryLoop(Thread([ops[o] EXCEPT !.wake = -1], Reg),
                          dir, now, cfg) IN
       /\ made' = made + P.made
       /\ ops' = [ops EXCEPT ![o] = P.op]
       /\ Commit(P.R, Event("retry", o, Path(<<ops[o].arq>>), P, dir),
                 FALSE)
    /\ UNCHANGED <<now, cfg, nextSweep, exitTimers, exited>>

\* mutant: reading the status counts as a use of every connection
getStatusCallTouches(R, t) ==
    [R |-> [connections |->
               [k \in DOMAIN R.connections |->
                   [R.connections[k] EXCEPT !.lastUsed = t]],
            handles |-> R.handles],
     status |-> getStatus(R, t)]

\* a call of ConnectionManager.getStatus() at time t: the registry it
\* leaves and the object it returns
getStatusCall(R, t) == [R |-> R, status |-> getStatus(R, t)]

\* Data.GetConnectionStatus()
GetConnectionStatus ==
    /\ ~exited
    /\ LET c == getStatusCall(Reg, now)
           e == [Event("status", 0, <<>>, Thread(IdleOp, c.R), Ok)
                    EXCEPT !.snapshot = c.status] IN
       Commit(c.R, e, FALSE)
    /\ UNCHANGED <<now, cfg, ops, made, nextSweep, exitTimers, exited>>

\* ConnectionManager.isConnectionOpen(Path([f])): the answer is kept in
\* the msg of the event
IsConnectionOpen(f) ==
    /\ ~exited
    /\ LET e == [Event("isopen", 0, Path(<<f>>), Thread(IdleOp, Reg), Ok)
                    EXCEPT !.msg = {isConnectionOpen(Reg, Path(<<f>>))}] IN
       Commit(Reg, e, FALSE)
    /\ UNCHANGED <<now, cfg, ops, made, nextSweep, exitTimers, exited>>

\* Data.CloseConnection(arq)
CloseConnection(f) ==
    /\ ~exited
    /\ now < MaxTime
    /\ LET P == [Thread(IdleOp, closeConnection(Reg, Path(<<f>>)))
                   EXCEPT !.evicted = {Path(<<f>>)}] IN
       Commit(P.R, Event("evict", 0, Path(<<f>>), P, Ok), P.R = Reg)
    /\ UNCHANGED <<now, cfg, ops, made, nextSweep, exitTimers, exited>>

\* the idle timer of the conn of Database h fires: the closure calls
\* closeConnection(arq)
IdleTimeout(h) ==
    /\ ~exited
    /\ handles[h].timer # -1
    /\ handles[h].timer <= now
    /\ LET R0 == [connections |-> connections,
                  handles |-> [handles EXCEPT ![h].timer = -1]]
           P == [Thread(IdleOp, closeConnection(R0, handles[h].key))
                   EXCEPT !.evicted = {handles[h].key}] IN
       Commit(P.R, Event("timer", h, handles[h].key, P, Ok), FALSE)
    /\ UNCHANGED <<now, cfg, ops, made, nextSweep, exitTimers, exited>>

\* Logger.Log: an async function, so a throw of writeFileSync rejects the
\* promise it returns instead of reaching the caller; the console output
\* precedes the write.  What the runtime does with the rejected promise,
\* which nothing awaits, is not decided by the source.
Log(ok) == IF ok THEN <<"console", "file">> ELSE <<"console", "rejected">>

\* sqlite3 fails to open the file of Database h, created in the step
\* before: the callback of new SQLITE.Database runs with an err, hands
\* "Failed to open database" to Logger.Log and returns null to sqlite3;
\* getConnection has returned the Database and stored its conn already
OpenFailed(h) ==
    /\ ~exited
    /\ h \in ev.created
    /\ handles[h].state = "open"
    /\ LET R1 == [connections |-> connections,
                  handles |-> [handles EXCEPT ![h].state = "openfailed"]]
           e == Event("openfailed", h, handles[h].key, Thread(IdleOp, R1),
                      Ok) IN
       Commit(R1, [e EXCEPT !.steps = Log(TRUE)], FALSE)
    /\ UNCHANGED <<now, cfg, ops, made, nextSweep, exitTimers, exited>>

\* sqlite3 finishes a close: the callback of db.close runs (with an err it
\* hands "Failed to close database" to Logger.Log), then, when the close
\* succeeded, the handler of the "close" event
CloseDone(h, ok) ==
    /\ ~exited
    /\ handles[h].state = "closing"
    /\ LET R1 == closeCallback(Reg, h, ok)
           R2 == IF ok THEN closeHandler(R1, h) ELSE R1
           e == Event(IF ok THEN "closed" ELSE "closefailed", h,
                      handles[h].key, Thread(IdleOp, R2), Ok) IN
       Commit(R2, [e EXCEPT !.steps = IF ok THEN <<>> ELSE Log(TRUE)],
              FALSE)
    /\ UNCHANGED <<now, cfg, ops, made, nextSweep, exitTimers, exited>>

RECURSIVE SweepAllFromThreshold(_, _, _)
\* mutant: an entry counts as idle from the threshold on
SweepAllFromThreshold(S, status, todo) ==
    IF todo = {} THEN S
    ELSE LET k == CHOOSE x \in todo : TRUE
             S1 == IF status[k].age >= StaleAge
                   THEN [R |-> closeConnection(S.R, k),
                         steps |-> Append(S.steps, k)]
                   ELSE S IN
         SweepAllFromThreshold(S1, status, todo \ {k})

RECURSIVE SweepAll(_, _, _)
\* the loop of the health check over the entries of `status`; S.steps are
\* the keys of the "Closed idle database connection" lines handed to
\* Logger.Log, in order
SweepAll(S, status, todo) ==
    IF todo = {} THEN S
    ELSE LET k == CHOOSE x \in todo : TRUE
             S1 == IF status[k].age > StaleAge
                   THEN [R |-> closeConnection(S.R, k),
                         steps |-> Append(S.steps, k)]
                   ELSE S IN
         SweepAll(S1, status, todo \ {k})

\* mutant: a tick runs only once the closes requested so far have completed
HealthCheckAwaitsCloses ==
    /\ ~exited
    /\ nextSweep <= now
    /\ \A h \in Handles : handles[h].state # "closing"
    /\ LET status == getStatus(Reg, now)
           S == SweepAll([R |-> Reg, steps |-> <<>>], status, DOMAIN status)
           P == [Thread(IdleOp, S.R)
                   EXCEPT !.evicted = {S.steps[i] : i \in DOMAIN S.steps}]
           e == [Event("sweep", 0, <<>>, P, Ok) EXCEPT !.steps = S.steps] IN
       Commit(P.R, e, FALSE)
    /\ nextSweep' = nextSweep + HealthCheckInterval
    /\ UNCHANGED <<now, cfg, ops, made, exitTimers, exited>>

\* the health check setInterval callback
HealthCheck ==
    /\ ~exited
    /\ nextSweep <= now
    /\ LET status == getStatus(Reg, now)
           S == SweepAll([R |-> Reg, steps |-> <<>>], status, DOMAIN status)
           P == [Thread(IdleOp, S.R)
                   EXCEPT !.evicted = {S.steps[i] : i \in DOMAIN S.steps}]
           e == [Event("sweep", 0, <<>>, P, Ok) EXCEPT !.steps = S.steps] IN
       Commit(P.R, e, FALSE)
    /\ nextSweep' = nextSweep + HealthCheckInterval
    /\ UNCHANGED <<now, cfg, ops, made, exitTimers, exited>>

\* mutant: a failure of Logger.Log reaches its caller, which stops there
shutdownHandlerLogThrows(R, t, log1, log2) ==
    IF ~log1
    THEN [R |-> R, steps |-> Log(log1), exitAt |-> {}]
    ELSE IF ~log2
    THEN [R |-> shutdown(R), steps |-> Log(log1) \o <<"shutdown">> \o Log(log2),
          exitAt |-> {}]
    ELSE [R |-> shutdown(R),
          steps |-> Log(log1) \o <<"shutdown">> \o Log(log2)
                       \o <<"setTimeout">>,
          exitAt |-> {t + ExitDelay}]

\* mutant: the handler is latched, a signal after the first does nothing
shutdownHandlerLatched(R, t, log1, log2) ==
    IF exitTimers # {}
    THEN [R |-> R, steps |-> <<>>, exitAt |-> {}]
    ELSE [R |-> shutdown(R),
          steps |-> Log(log1) \o <<"shutdown">> \o Log(log2)
                       \o <<"setTimeout">>,
          exitAt |-> {t + ExitDelay}]

\* const shutdown = async (signal) => { ... } of setupShutdownHandlers, run
\* at time t; log1 and log2 tell whether the log file of each Logger.Log
\* can be written
shutdownHandler(R, t, log1, log2) ==
    [R |-> shutdown(R),
     steps |-> Log(log1) \o <<"shutdown">> \o Log(log2) \o <<"setTimeout">>,
     exitAt |-> {t + ExitDelay}]

\* a SIGINT / SIGTERM / SIGBREAK handler
Signal(log1, log2) ==
    /\ ~exited
    /\ now < MaxTime
    /\ LET S == shutdownHandler(Reg, now, log1, log2)
           P == [Thread(IdleOp, S.R) EXCEPT !.evicted = Keys]
           e == [Event("shutdown", 0, <<>>, P, Ok) EXCEPT !.steps = S.steps] IN
       /\ Commit(P.R, e, P.R = Reg /\ S.exitAt \subseteq exitTimers
                                  /\ log1 /\ log2)
       /\ exitTimers' = exitTimers \cup S.exitAt
    /\ UNCHANGED <<now, cfg, ops, made, nextSweep, exited>>

\* process.exit(0)
Exit ==
    /\ ~exited
    /\ \E t \in exitTimers : t <= now
    /\ exited' = TRUE
    /\ ev' = [Event("exit", 0, <<>>, Thread(IdleOp, Reg), Ok)
                 EXCEPT !.status = ExitStatus]
    /\ UNCHANGED <<now, cfg, connections, handles, ops, made, nextSweep,
                   exitTimers, acq, evictedSince>>

\* the times at which a scheduled callback becomes due
Deadlines ==
    {handles[h].timer : h \in {x \in Handles : handles[x].timer # -1}}
    \cup {ops[o].wake : o \in {x \in Ops : ops[x].pc = "waiting"}}
    \cup {nextSweep}
    \cup exitTimers

\* the time up to which a behaviour is followed
Horizon(c) == IF PoolTimeout(c) > StaleAge THEN MaxSweeps * HealthCheckInterval
              ELSE MaxTime

\* time passes until the next scheduled callback is due
Tick ==
    /\ ~exited
    /\ Min(Deadlines) > now
    /\ Min(Deadlines) <= Horizon(cfg)
    /\ now' = Min(Deadlines)
    /\ ev' = Event("tick", 0, <<>>, Thread(IdleOp, Reg), Ok)
    /\ UNCHANGED <<cfg, connections, handles, ops, made, nextSweep,
                   exitTimers, exited, acq, evictedSince>>

\* The process during its first MaxTime milliseconds, with the shipped pool
\* timeout, callers that await each call before the next, closes that
\* succeed and no termination signal.  The first health-check tick lies
\* beyond MaxTime.
Next ==
    \/ \E o \in Callers, f \in Files, m \in Methods, dir \in DirOutcomes :
          Execute(o, f, m, dir)
    \/ \E o \in Ops, res \in StmtOutcomes : StatementDone(o, res)
    \/ \E o \in Ops, dir \in DirOutcomes : RetryWake(o, dir)
    \/ \E f \in Files : CloseConnection(f)
    \/ \E h \in Handles : IdleTimeout(h)
    \/ \E h \in Handles : CloseDone(h, TRUE)
    \/ Tick

Spec == Init /\ [][Next]_vars

(* ------------------------------ properties --------------------------- *)
RegNext == [connections |-> connections', handles |-> handles']
\* the retry budget of the configuration
Budget == InitialRetries(cfg)
\* a close has been requested on Database h
CloseWasRequested(h) == handles[h].state # "open"
\* the Databases opened for key k with no close requested yet
LiveHandles(k) ==
    {h \in Handles : handles[h].key = k /\ handles[h].state = "open"}
\* the last event handled a failure whose message has one of the markers
TransientFailure == ev.failed /\ ev.msg \cap Markers # {}

\* C1: a write-mode call whose statement succeeds returns the number of rows
\* the statement affected.
C1_WriteReturnsAffectedRows ==
    (ev.kind = "resolve" /\ ev.ret.method = "run")
        => /\ ev.ret.outcome = "resolved"
           /\ ev.ret.value = Num(ev.ret.rows)

\* C2: for every resource at most one Database that was opened for it has
\* no close requested on it.
C2_AtMostOneLiveHandle ==
    \A k \in Keys : Cardinality(LiveHandles(k)) <= 1

\* C3: with a retry budget N >= 1, no call makes more than N attempts, and a
\* call all of whose attempts failed with a transient failure has made
\* exactly N attempts and fails with ConnectionExhausted.
C3_ExactlyBudgetAttempts ==
    Budget >= 1 =>
        /\ \A o \in Ops : ops[o].attempts <= Budget
        /\ ev.ret.attempts <= Budget
        /\ (ev.ret.outcome # "none" /\ ev.ret.nTransient = ev.ret.attempts)
              => /\ ev.ret.attempts = Budget
                 /\ ev.ret.outcome = "rejected"
                 /\ ev.ret.error.kind = "ConnectionExhausted"
                 /\ ev.ret.error.msg = ev.msg
        /\ ev.ret.error.kind = "ConnectionExhausted"
              => ev.ret.nTransient = Budget

C3_Witness ==
    /\ Budget >= 2
    /\ ev.ret.error.kind = "ConnectionExhausted"
    /\ ev.ret.attempts = Budget
    /\ ev.ret.nTransient = Budget

\* C4: with a retry budget N >= 1, a transient failure that follows fewer
\* than N transient failures leaves the call waiting for its next attempt,
\* and a call whose attempt k+1 succeeds after k < N transient failures
\* succeeds with the result of that attempt.
C4_SucceedsAfterTransientFailures ==
    Budget >= 1 =>
        /\ TransientFailure =>
              \/ /\ ev.ret.outcome = "none"
                 /\ ops[ev.op].pc = "waiting"
                 /\ ops[ev.op].nTransient = ops[ev.op].attempts
                 /\ ops[ev.op].nTransient < Budget
              \/ /\ ev.ret.error.kind = "ConnectionExhausted"
                 /\ ev.ret.nTransient = Budget
        /\ ev.kind = "resolve" =>
              /\ ev.ret.outcome = "resolved"
              /\ ev.ret.attempts = ev.ret.nTransient + 1
              /\ ev.ret.nTransient < Budget
              /\ ev.ret.value =
                    CallbackResolve(ev.ret.method,
                                    EngineResult(ev.ret.method, ev.ret.rows))
              /\ ev.ret.method # "run" =>
                    ev.ret.value = EngineResult(ev.ret.method, ev.ret.rows)

C4_Witness ==
    /\ ev.kind = "resolve"
    /\ ev.ret.outcome = "resolved"
    /\ ev.ret.nTransient >= 1
    /\ ev.ret.attempts = ev.ret.nTransient + 1
    /\ ev.ret.value = Rows(1)

\* C5: a failure whose message has none of the three markers is handed to
\* the caller as it is, on that attempt: no further attempt, no eviction,
\* no close, and the registry is left as it was.
C5_NonTransientPropagates ==
    [][(ev'.failed /\ ev'.msg \cap Markers = {}) =>
          /\ ev'.ret.outcome = "rejected"
          /\ ev'.ret.error = [kind |-> "rethrown", msg |-> ev'.msg]
          /\ ops'[ev'.op].pc = "idle"
          /\ made' = made + (IF ev'.kind = "reject" THEN 0 ELSE 1)
          /\ ev'.evicted = {}
          /\ ev'.closed = {}
          /\ connections' = connections
          /\ handles' = handles
          /\ (ev'.kind = "reject" /\ ev'.key \in DOMAIN connections
                 /\ connections[ev'.key].open)
                => isConnectionOpen(RegNext, ev'.key) = "true"]_vars

C5_Witness ==
    /\ ev.kind = "reject"
    /\ ev.msg = {}
    /\ ev.ret.outcome = "rejected"
    /\ ev.ret.attempts = 1
    /\ isConnectionOpen(Reg, ev.key) = "true"

\* C6: a getConnection that follows another one for the same file within
\* the pool timeout, with no eviction or drain of the file requested in
\* between, returns the same Database, leaves open true and sets lastUsed to
\* its own time.
C6_SecondAcquireHits ==
    [][(/\ ev'.db # 0
        /\ ev'.kind \in {"execute", "retry"}
        /\ acq[ev'.key].h # 0
        /\ ~evictedSince[ev'.key]
        /\ now - acq[ev'.key].t < PoolTimeout(cfg))
          => /\ ev'.db = acq[ev'.key].h
             /\ isConnectionOpen(RegNext, ev'.key) = "true"
             /\ connections'[ev'.key].lastUsed = now]_vars

C8_IdleHandleIsClosed ==
    ev.kind = "timer" => CloseWasRequested(ev.op)

C10_EvictedKeyAbsentAtOnce ==
    [][/\ \A k \in ev'.evicted : k \notin DOMAIN connections'
       /\ \A h \in ev'.closed :
             /\ handles'[h].state = "closing"
             /\ \A k \in DOMAIN connections' : connections'[k].db # h
       /\ ev'.db # 0 =>
             /\ handles'[ev'.db].state = "open"
             /\ ev'.db \in Handles => handles[ev'.db].state = "open"
             /\ ev'.key \notin DOMAIN connections => ev'.db \notin Handles
             /\ connections'[ev'.key].db = ev'.db]_vars

C10_Witness ==
    /\ ev.db # 0
    /\ \E h \in Handles :
          /\ h # ev.db
          /\ handles[h].key = ev.key
          /\ handles[h].state = "closing"
    /\ connections[ev.key].db = ev.db

\* The process with a pool timeout beyond the stale age, followed until the
\* health check has found stale connections and the idle timers have fired,
\* with termination signals and closes that succeed.  With a retry budget of
\* 1 no call waits for a retry.
\* the conn stored for key k has the pending timer set at its last use
HasOwnTimer(m, hs, k, t, c) ==
    /\ hs[m[k].db].key = k
    /\ hs[m[k].db].timer # -1
    /\ hs[m[k].db].timer >= t
    /\ hs[m[k].db].timer = m[k].lastUsed + PoolTimeout(c)

\* C11: after every step, every record of the map that has open = true has
\* a pending timer of its own, due one pool timeout after its last use and
\* not earlier than the current time; a getConnection that finds the record
\* creates no Database and leaves one pending timer, due one pool timeout
\* after the call.
C11_OpenRecordHasTimer ==
    [][/\ \A k \in DOMAIN connections' :
             connections'[k].open =>
                 HasOwnTimer(connections', handles', k, now', cfg)
       /\ (ev'.db # 0 /\ ev'.db \in Handles) =>
             /\ Len(handles') = Len(handles)
             /\ connections'[ev'.key].db = ev'.db
             /\ handles'[ev'.db].timer = now + PoolTimeout(cfg)]_vars

C11_Witness ==
    /\ ev.kind = "execute"
    /\ ev.db # 0
    /\ ev.db < Len(handles)
    /\ now > 0
    /\ connections[ev.key].lastUsed = now
    /\ handles[ev.db].timer = now + PoolTimeout(cfg)

\* C12: closeConnection for a key that has no record changes nothing; a
\* Data.CloseConnection for a key that has a record leaves the registry as
\* one closeConnection does, requests the close of the Database of that
\* record and of no other, and a second closeConnection for the key right
\* after it changes nothing and requests no close.
C12_EvictIdempotent ==
    [][/\ \A k \in Keys \ DOMAIN connections : closeConnection(Reg, k) = Reg
       /\ (ev'.kind = "evict" /\ ev'.key \in DOMAIN connections) =>
             LET R1 == closeConnection(Reg, ev'.key)
                 R2 == closeConnection(R1, ev'.key) IN
             /\ RegNext = R1
             /\ R2 = R1
             /\ CloseRequested(handles, R1.handles)
                    = {connections[ev'.key].db}
             /\ ev'.closed = {connections[ev'.key].db}
             /\ CloseRequested(R1.handles, R2.handles) = {}
             /\ handles'[connections[ev'.key].db].timer = -1]_vars

C12_Witness ==
    /\ ev.kind = "evict"
    /\ Cardinality(ev.closed) = 1
    /\ ev.key \notin DOMAIN connections
    /\ closeConnection(Reg, ev.key) = Reg
    /\ \E k \in DOMAIN connections : k # ev.key

\* the keys getConnection has been called with
Acquired == {k \in Keys : acq[k].h # 0}
\* the file names as they are handed to Data.Execute, used as keys
RawKeys == {<<f>> : f \in Files}

C15_NoOpenHandleAtExit ==
    exited => \A h \in Handles : CloseWasRequested(h)

\* C16: a signal handler emits a diagnostic, runs shutdown(), emits a
\* second diagnostic and schedules the exit one grace delay later, in this
\* order and whether or not the log files can be written; shutdown() empties
\* the map and requests the close of every Database in it; the process exits
\* one grace delay after the first signal, with status 0.
C16_ShutdownOrder ==
    [][/\ ev'.kind = "shutdown" =>
             /\ Len(ev'.steps) = 6
             /\ ev'.steps[1] = "console"
             /\ ev'.steps[3] = "shutdown"
             /\ ev'.steps[4] = "console"
             /\ ev'.steps[6] = "setTimeout"
             /\ connections' = <<>>
             /\ \A k \in DOMAIN connections :
                   connections[k].db \in ev'.closed
             /\ (now + ExitDelay) \in exitTimers'
             /\ ~exited'
       /\ ev'.kind = "exit" =>
             /\ exited'
             /\ exitTimers # {}
             /\ now = Min(exitTimers)
             /\ ev'.status = 0]_vars

C16_Witness ==
    /\ ev.kind = "shutdown"
    /\ ev.steps = <<"console", "rejected", "shutdown", "console", "rejected",
                    "setTimeout">>
    /\ ev.closed # {}
    /\ connections = <<>>
    /\ exitTimers = {now + ExitDelay}

\* C17: whatever max_retries is, a call that returns normally returns what
\* the statement callback of a successful attempt resolved with.
C17_NoSilentDefault ==
    ev.ret.outcome = "resolved" =>
        /\ ev.kind = "resolve"
        /\ ev.ret.attempts >= 1
        /\ ev.ret.value =
              CallbackResolve(ev.ret.method,
                              EngineResult(ev.ret.method, ev.ret.rows))

\* the retries left before the step of the last event: a new call starts
\* with the configured budget
RetriesBefore == IF ev'.kind = "execute" THEN Budget ELSE ops[ev'.op].retries

\* C18: when an attempt fails with a message that has any of the three
\* markers, the retry loop calls closeConnection with the key getConnection
\* is called with, so that the key has no record, and takes one from the
\* retries; if retries are left the call waits one retry delay, else it
\* fails with ConnectionExhausted; the attempt after the delay calls
\* getConnection again and runs on the Database it returns.
C18_TransientEvictsAndRetries ==
    [][/\ (ev'.failed /\ ev'.msg \cap Markers # {}) =>
             /\ ev'.key = Path(<<ops[ev'.op].arq>>)
                   \/ ev'.kind = "execute"
             /\ ev'.key \in ev'.evicted
             /\ ev'.key \notin DOMAIN connections'
             /\ \/ /\ ev'.ret.outcome = "none"
                   /\ ops'[ev'.op].pc = "waiting"
                   /\ ops'[ev'.op].retries = RetriesBefore - 1
                   /\ ops'[ev'.op].retries > 0
                   /\ ops'[ev'.op].wake = now + RetryDelay
                   /\ Path(<<ops'[ev'.op].arq>>) = ev'.key
                \/ /\ ev'.ret.outcome = "rejected"
                   /\ ev'.ret.error.kind = "ConnectionExhausted"
                   /\ RetriesBefore = 1
                   /\ ops'[ev'.op].pc = "idle"
       /\ (ev'.kind = "retry" /\ ~ev'.failed) =>
             /\ ops[ev'.op].pc = "waiting"
             /\ ev'.db # 0
             /\ connections'[ev'.key].db = ev'.db
             /\ handles'[ev'.db].state = "open"
             /\ ops'[ev'.op].pc = "running"
             /\ ops'[ev'.op].db = ev'.db
             /\ ops'[ev'.op].attempts = ops[ev'.op].attempts + 1]_vars

C18_Witness ==
    /\ ev.kind = "retry"
    /\ ~ev.failed
    /\ ev.db = 2
    /\ handles[1].state = "closing"
    /\ handles[1].key = ev.key
    /\ ops[ev.op].pc = "running"
    /\ ops[ev.op].nTransient = 1
    /\ now = RetryDelay

\* C19 as stated: a failure whose message has "closed" or "not open" but not
\* "SQLITE_MISUSE" leads to no closeConnection and no retry: it is handed to
\* the caller as it is.
C19_OnlyFirstMarkerMatches ==
    [][(ev'.failed /\ ev'.msg # {} /\ ~includes(ev'.msg, "SQLITE_MISUSE")) =>
          /\ ev'.evicted = {}
          /\ ev'.closed = {}
          /\ ev'.ret.outcome = "rejected"
          /\ ev'.ret.error.kind = "rethrown"]_vars

\* C19 amended: only the test of the statement callback matches the first
\* marker alone, and all it drives is a closeConnection with the file name
\* as key; the test of the retry loop matches each of the three markers, so
\* a failed statement leads to closeConnection with the key of getConnection
\* and to a retry (or ConnectionExhausted) exactly when its message has one
\* of the three.
C19_CallbackMatchesFirstMarkerOnly ==
    [][ev'.kind = "reject" =>
          /\ <<ops[ev'.op].arq>> \in ev'.evicted
                <=> includes(ev'.msg, "SQLITE_MISUSE")
          /\ Path(<<ops[ev'.op].arq>>) \in ev'.evicted
                <=> ev'.msg \cap Markers # {}
          /\ ev'.ret.error.kind = "rethrown"
                <=> ev'.msg \cap Markers = {}
          /\ (ev'.ret.outcome = "none" /\ ops'[ev'.op].pc = "waiting")
                \/ ev'.ret.error.kind = "ConnectionExhausted"
                <=> ev'.msg \cap Markers # {}]_vars

C19_Witness ==
    /\ ev.kind = "reject"
    /\ ev.msg = {"not open"}
    /\ ev.evicted = {ev.key}
    /\ ev.closed # {}
    /\ ops[ev.op].pc = "waiting"
    /\ ev.ret.outcome = "none"

\* C20: the record of a Database leaves the map only in a step that calls
\* closeConnection with its key or shutdown(), and when that step is the
\* firing of an idle timer the timer is the one of that record; the
\* completion of the close of another Database removes no record.
C20_RecordLeavesOnlyByEviction ==
    [][\A k \in DOMAIN connections :
          (k \notin DOMAIN connections'
             \/ connections'[k].db # connections[k].db)
          => /\ k \in ev'.evicted
             /\ ev'.kind \notin {"closed", "closefailed"}
             /\ ev'.kind = "timer" => ev'.op = connections[k].db]_vars

\* C21: the firing of an idle timer removes a record only when at least the
\* pool timeout has passed since the record was last used, and only when
\* the timer is the one of the Database of that record: the timer of an
\* earlier Database of the same file removes no record.
C21_IdleTimerEvictsOnlyIdleRecord ==
    [][ev'.kind = "timer" =>
          \A k \in DOMAIN connections :
             k \notin DOMAIN connections'
             => /\ ev'.op = connections[k].db
                /\ now - connections[k].lastUsed >= PoolTimeout(cfg)]_vars

\* C22: every record in the map has open = true and refers to a Database on
\* which no close has been requested (its sqlite3 handle is neither closing
\* nor closed), and getStatus() reports open = true for every entry.
C22_RecordsAreOpen ==
    \A k \in DOMAIN connections :
       /\ connections[k].open
       /\ handles[connections[k].db].state = "open"
       /\ getStatus(Reg, now)[k].open

C22_Witness ==
    \E k \in DOMAIN connections, h \in Handles :
       /\ handles[h].key = k
       /\ handles[h].state = "closing"
       /\ connections[k].db # h
       /\ \E k2 \in DOMAIN connections : k2 # k

C27_DirectoryFailureNotRetried ==
    [][(ev'.kind \in {"execute", "retry"} /\ ev'.failed) =>
          /\ ev'.db = 0
          /\ ev'.evicted = {}
          /\ ev'.closed = {}
          /\ ops'[ev'.op].pc = "idle"
          /\ ev'.ret.outcome = "rejected"
          /\ ev'.ret.error.kind = "rethrown"]_vars

\* C29: a signal that arrives while an exit is already scheduled runs the
\* handler again: shutdown() empties the map and requests the close of the
\* Databases opened since, and one more process.exit(0) is scheduled; the
\* process exits with status 0 when the earliest of the scheduled exits is
\* due, the exit delay after the first signal.
C29_SignalReenters ==
    [][/\ (ev'.kind = "shutdown" /\ exitTimers # {}) =>
             /\ \E i \in DOMAIN ev'.steps : ev'.steps[i] = "shutdown"
             /\ ev'.steps[Len(ev'.steps)] = "setTimeout"
             /\ connections' = <<>>
             /\ \A k \in DOMAIN connections :
                   /\ handles'[connections[k].db].state = "closing"
                   /\ handles'[connections[k].db].timer = -1
             /\ exitTimers' = exitTimers \cup {now + ExitDelay}
             /\ ~exited'
       /\ ev'.kind = "exit" =>
             /\ exited'
             /\ ev'.status = ExitStatus
             /\ now = Min(exitTimers)
             /\ \A t \in exitTimers : t >= now]_vars

\* the process has exited with a second exit still scheduled
C29_Witness ==
    /\ ev.kind = "exit"
    /\ exited
    /\ ev.status = ExitStatus
    /\ Cardinality(exitTimers) = 2
    /\ now = Min(exitTimers)
    /\ now = ExitDelay
    /\ \E h \in Handles : handles[h].state = "closing"

Outstanding(o) ==
    IF o.pc = "running" THEN o.retries - 1
    ELSE IF o.pc = "waiting" THEN o.retries
    ELSE 0

RECURSIVE SumOutstanding(_)
SumOutstanding(S) ==
    IF S = {} THEN 0
    ELSE LET o == CHOOSE x \in S : TRUE IN
         Outstanding(ops[o]) + SumOutstanding(S \ {o})

\* a call is started only when the attempts and the retry delays it may
\* need, with those of the calls in flight, lie within the bounds up to
\* which behaviours are followed
Admit ==
    /\ made + SumOutstanding(Ops) + Budget <= MaxAttempts
    /\ now + Budget * RetryDelay <= MaxTime

\* the statement outcomes of the calls below: success, a connection error
\* and another error
ConcOutcomes ==
    {Ok, [ok |-> FALSE, msg |-> {"closed"}, n |-> 0],
         [ok |-> FALSE, msg |-> {}, n |-> 0]}

InitConc ==
    /\ cfg \in Configs
    /\ PoolTimeout(cfg) <= StaleAge
    /\ cfg.max_retries >= 0
    /\ InitRest

\* Two callers that do not await each other: a second Data.Execute may
\* start while the first is in flight.  Shipped pool timeout, directories
\* that exist, closes that succeed, no termination signal.
NextConc ==
    \/ \E o \in Ops, f \in Files :
          Admit /\ Execute(o, f, "run", Ok)
    \/ \E o \in Ops, res \in ConcOutcomes : StatementDone(o, res)
    \/ \E o \in Ops : RetryWake(o, Ok)
    \/ \E f \in Files : CloseConnection(f)
    \/ \E h \in Handles : IdleTimeout(h)
    \/ \E h \in Handles : CloseDone(h, TRUE)
    \/ Tick

SpecConc == InitConc /\ [][NextConc]_vars

\* sqlite3 answers every statement it was handed, and the timers of the
\* runtime (retry delays, idle timers) fire when due
FairConc ==
    /\ \A o \in Ops : WF_vars(\E res \in ConcOutcomes : StatementDone(o, res))
    /\ \A o \in Ops : WF_vars(RetryWake(o, Ok))
    /\ WF_vars(\E h \in Handles : IdleTimeout(h))
    /\ WF_vars(Tick)

SpecLive == InitConc /\ [][NextConc]_vars /\ FairConc

InitSweep ==
    /\ cfg \in Configs
    /\ PoolTimeout(cfg) > StaleAge
    /\ InitRest

NextSweep ==
    \/ \E o \in Callers, f \in Files, m \in Methods, dir \in DirOutcomes :
          Execute(o, f, m, dir)
    \/ \E o \in Ops, res \in StmtOutcomes : StatementDone(o, res)
    \/ \E f \in Files : CloseConnection(f)
    \/ \E h \in Handles : IdleTimeout(h)
    \/ \E h \in Handles : CloseDone(h, TRUE)
    \/ HealthCheck
    \/ \E log1, log2 \in BOOLEAN : Signal(log1, log2)
    \/ Exit
    \/ Tick

SpecSweep == InitSweep /\ [][NextSweep]_vars

\* C25: a health-check tick calls closeConnection for exactly the keys in
\* the map whose age (now - lastUsed) is greater than five minutes: their
\* records leave the map, a close is requested on their Databases and
\* their timers are cleared; it hands one "Closed idle database
\* connection" line per such key to Logger.Log; the record of every other
\* key and every other Database (state, timer) stay as they are.
C25_SweepEvictsExactlyStale ==
    [][ev'.kind = "sweep" =>
          LET stale == {k \in DOMAIN connections :
                           now - connections[k].lastUsed > StaleAge}
              dbs == {connections[k].db : k \in stale} IN
          /\ DOMAIN connections' = DOMAIN connections \ stale
          /\ \A k \in DOMAIN connections' : connections'[k] = connections[k]
          /\ Len(handles') = Len(handles)
          /\ \A h \in Handles :
                IF h \in dbs
                THEN /\ handles'[h].state = "closing"
                     /\ handles'[h].timer = -1
                ELSE handles'[h] = handles[h]
          /\ Len(ev'.steps) = Cardinality(stale)
          /\ {ev'.steps[i] : i \in DOMAIN ev'.steps} = stale]_vars

\* a tick that finds one idle record and one that is not
C25_Witness ==
    /\ ev.kind = "sweep"
    /\ Len(ev.steps) = 1
    /\ Cardinality(DOMAIN connections) = 1
    /\ \E k \in DOMAIN connections :
          /\ now - connections[k].lastUsed = StaleAge
          /\ handles[connections[k].db].state = "open"
          /\ handles[connections[k].db].timer > now
    /\ \E h \in Handles : /\ handles[h].state = "closing"
                          /\ handles[h].key = ev.steps[1]

\* C26: the health-check callback returns without waiting for the closes it
\* requested (they are pending when it returns), and the tick that is due
\* can run whatever closes are pending: each tick runs at the time it was
\* scheduled for, one interval after the one before.
C26_SweepDoesNotWaitForCloses ==
    /\ []((~exited /\ nextSweep <= now) => ENABLED HealthCheck)
    /\ [][ev'.kind = "sweep" =>
             /\ now' = nextSweep
             /\ nextSweep' = nextSweep + HealthCheckInterval
             /\ \A h \in ev'.closed : handles'[h].state = "closing"]_vars

\* the second tick after the five minutes closes a Database while the close
\* of another, requested at the tick before or earlier, is pending
C26_Witness ==
    /\ ev.kind = "sweep"
    /\ now = StaleAge + 2 * HealthCheckInterval
    /\ \E h1, h2 \in Handles :
          /\ h1 \notin ev.closed
          /\ handles[h1].state = "closing"
          /\ handles[h1].key # handles[h2].key
          /\ h2 \in ev.closed
          /\ handles[h2].state = "closing"

\* the number of health-check ticks up to which calls arrive
MaxLateSweeps == 1

\* The process over MaxSweeps health-check ticks with a pool timeout above
\* the five minutes of the health check, so that the health check is what
\* closes idle connections; calls arrive up to tick MaxLateSweeps and find
\* their directory.
NextStale ==
    \/ \E o \in Callers, f \in Files, m \in Methods :
          /\ now <= MaxLateSweeps * HealthCheckInterval
          /\ Call(o, f, m, Ok)
    \/ \E o \in Ops, res \in ConcOutcomes : StatementDone(o, res)
    \/ \E h \in Handles : IdleTimeout(h)
    \/ \E h \in Handles : CloseDone(h, TRUE)
    \/ HealthCheck
    \/ Tick

SpecStale == InitSweep /\ [][NextStale]_vars

\* C28: a db.close that fails hands one "Failed to close database" line to
\* Logger.Log and reaches no caller: it runs in the callback of db.close,
\* after closeConnection or shutdown() has returned, and changes no call and
\* no record.  closeConnection and shutdown() delete the record in the step
\* that requests the close, so the key has no record from then on, and the
\* Database has none when its close completes, with or without an error.
C28_CloseFailureIsLoggedOnly ==
    [][/\ ev'.kind = "closefailed" =>
             /\ ev'.steps = Log(TRUE)
             /\ handles[ev'.op].state = "closing"
             /\ handles'[ev'.op].state = "closefailed"
             /\ connections' = connections
             /\ ops' = ops
             /\ ev'.ret.outcome = "none"
       /\ ev'.kind \in {"evict", "shutdown"} =>
             /\ \A k \in ev'.evicted : k \notin DOMAIN connections'
             /\ \A h \in ev'.closed : handles'[h].state = "closing"
       /\ ev'.kind \in {"closed", "closefailed"} =>
             \A k \in DOMAIN connections' : connections'[k].db # ev'.op]_vars

\* the close of a Database that shutdown() asked for has failed, after the
\* file was opened again
C28_Witness ==
    /\ ev.kind = "closefailed"
    /\ ev.steps = Log(TRUE)
    /\ exitTimers # {}
    /\ handles[ev.op].state = "closefailed"
    /\ ev.key \in DOMAIN connections
    /\ connections[ev.key].db # ev.op
    /\ \E h \in Handles : handles[h].state = "closed"

InitClose ==
    /\ cfg = [max_retries |-> 1, db_pool_timeout |-> DefaultPoolTimeout]
    /\ InitRest

\* The process with closes that may fail, under closeConnection calls and
\* termination signals, with the shipped pool timeout.
NextClose ==
    \/ \E o \in Callers, f \in Files : Execute(o, f, "run", Ok)
    \/ \E o \in Ops, res \in ConcOutcomes : StatementDone(o, res)
    \/ \E f \in Files : CloseConnection(f)
    \/ \E h \in Handles : IdleTimeout(h)
    \/ \E h \in Handles, ok \in BOOLEAN : CloseDone(h, ok)
    \/ Signal(TRUE, TRUE)
    \/ Exit
    \/ Tick

SpecClose == InitClose /\ [][NextClose]_vars


\* C31: getStatus() returns one entry for exactly each key of the map, with
\* the open flag of its record and age = now - lastUsed, and neither it nor
\* isConnectionOpen changes the map, a Database or a timer.
C31_StatusIsReadOnly ==
    [][/\ ev'.kind = "status" =>
             /\ DOMAIN ev'.snapshot = DOMAIN connections
             /\ \A k \in DOMAIN connections :
                   /\ ev'.snapshot[k].age = now - connections[k].lastUsed
                   /\ ev'.snapshot[k].open = connections[k].open
                   /\ ev'.snapshot[k].lastUsed
                         = toISOString(connections[k].lastUsed)
       /\ ev'.kind \in {"status", "isopen"} =>
             /\ connections' = connections
             /\ handles' = handles
             /\ ops' = ops
             /\ now' = now]_vars

\* a snapshot taken when the idle timer of a record is due but has not
\* fired, with a second record that was just used
C31_Witness ==
    /\ ev.kind = "status"
    /\ Cardinality(DOMAIN ev.snapshot) = 2
    /\ \E k1, k2 \in DOMAIN connections :
          /\ ev.snapshot[k1].age = PoolTimeout(cfg)
          /\ handles[connections[k1].db].timer = now
          /\ ev.snapshot[k2].age = 0
          /\ handles[connections[k2].db].timer = now + PoolTimeout(cfg)

\* The process under monitoring: status reads between calls, evictions,
\* timers and close completions, with the shipped pool timeout.
NextRead ==
    \/ \E o \in Callers, f \in Files : Execute(o, f, "get", Ok)
    \/ \E o \in Ops, res \in ConcOutcomes : StatementDone(o, res)
    \/ \E f \in Files : CloseConnection(f)
    \/ \E h \in Handles : IdleTimeout(h)
    \/ \E h \in Handles : CloseDone(h, TRUE)
    \/ GetConnectionStatus
    \/ \E f \in Files : IsConnectionOpen(f)
    \/ Tick

SpecRead == InitClose /\ [][NextRead]_vars


\* C32: when sqlite3 cannot open the file of a Database, no record of the
\* map with open = true holds that Database and no call has a statement
\* running on it: getConnection returned null and executeCall threw
\* "Failed to obtain database connection".
C32_OpenFailureLeavesNoRecord ==
    \A h \in Handles :
       handles[h].state = "openfailed"
       => /\ \A k \in DOMAIN connections :
                ~(connections[k].db = h /\ connections[k].open)
          /\ \A o \in Ops : ~(ops[o].pc = "running" /\ ops[o].db = h)

\* The process when sqlite3 may fail to open a file, with the shipped pool
\* timeout.
NextOpen ==
    \/ \E o \in Callers, f \in Files : Execute(o, f, "get", Ok)
    \/ \E o \in Ops, res \in ConcOutcomes : StatementDone(o, res)
    \/ \E f \in Files : CloseConnection(f)
    \/ \E h \in Handles : IdleTimeout(h)
    \/ \E h \in Handles : CloseDone(h, TRUE)
    \/ \E h \in Handles : OpenFailed(h)
    \/ Tick

SpecOpen == InitClose /\ [][NextOpen]_vars


\* C33: the closeConnection of the catch block after a failed statement
\* requests a close on no Database other than the one the statement ran on.
C33_RetryEvictsOnlyFailingHandle ==
    [][(ev'.kind = "reject" /\ IsConnectionError(ev'.msg)) =>
          ev'.closed \subseteq {ops[ev'.op].db}]_vars


\* C34: the idle timer of a Database requests no close on it while a call
\* that got it from getConnection has a statement running on it.
C34_NoIdleCloseWhileRunning ==
    [][ev'.kind = "timer" =>
          \A o \in Ops :
             ~(/\ ops[o].pc = "running"
               /\ ops[o].db = ev'.op
               /\ ops[o].db \in ev'.closed)]_vars


\* C35: a getConnection (in a call or a retry), a closeConnection (from
\* outside, from a timer or from the catch block of a call) and the end of
\* a close, each for one key, leave every other key as it was: its record
\* (Database, lastUsed, open), the state and the timer of its Database, and
\* a key without a record gets none.
C35_OtherKeysUnchanged ==
    [][ev'.kind \in {"execute", "retry", "resolve", "reject", "evict",
                     "timer", "closed", "closefailed"} =>
          \A k \in Keys \ {ev'.key} :
             IF k \in DOMAIN connections
             THEN /\ k \in DOMAIN connections'
                  /\ connections'[k] = connections[k]
                  /\ handles'[connections[k].db] = handles[connections[k].db]
             ELSE k \notin DOMAIN connections']_vars

\* the idle timer of one file has fired and the record of the other file is
\* in the map with its timer pending
C35_Witness ==
    /\ ev.kind = "timer"
    /\ ev.closed # {}
    /\ ev.key \notin DOMAIN connections
    /\ \E k \in DOMAIN connections :
          /\ k # ev.key
          /\ connections[k].open
          /\ handles[connections[k].db].state = "open"
          /\ handles[connections[k].db].timer >= now


\* C36: every closeConnection of a call is made with the key its
\* getConnection was made with, BaseState.Path([arq]), and the one in the
\* statement callback, on an error with "SQLITE_MISUSE", removes the record
\* of the file from the map.
C36_EvictionUsesRegistryKey ==
    [][ev'.kind \in {"execute", "retry", "resolve", "reject"} =>
          /\ ev'.evicted \subseteq {ev'.key}
          /\ (/\ ev'.kind = "reject"
              /\ CallbackIsNotOpen(ev'.msg)
              /\ ev'.key \in DOMAIN connections)
             => ev'.key \notin
                   DOMAIN closeConnection(Reg, <<ops[ev'.op].arq>>).connections
       ]_vars

====
